---- MODULE Spec2Model ----
(***************************************************************************)
(* rose-cache (package rcache): a facade over the bigcache engine.         *)
(*                                                                         *)
(* Modelled from src/cache.go: Cache.Get, GetString, GetValue, Set,        *)
(* Delete are thin calls on the engine handle c.cache.  SetEX, Has, Close  *)
(* and the package's error values are used by the tests of src/cache.go    *)
(* but their code is not part of src/; they are modelled from spec.md.     *)
(* The engine (github.com/allegro/bigcache/v3) is an external collaborator *)
(* and is modelled by its contract: a key -> (bytes, write time) store     *)
(* with one global life window.                                            *)
(*                                                                         *)
(* Byte strings are sequences of tokens (strings).  Time is a counter.     *)
(***************************************************************************)
EXTENDS Integers, Sequences, FiniteSets, TLC

\* ------------------------------------------------------------------ bounds
MaxTime == 2
LifeWindow == 1
MaxTTL == 2

\* ------------------------------------------------------------- error values
Nil == "nil"
ErrKeyEmpty == "ErrKeyEmpty"
ErrKeyNotFound == "ErrKeyNotFound"
ErrValueEmpty == "ErrValueEmpty"
ErrEntryNotFound == "bigcache.ErrEntryNotFound"
ErrEngine == "bigcache.entryTooBig"
ErrUnmarshal == "failed to unmarshal data"
ErrMarshal == "failed to marshal data"

\* ------------------------------------------------------------------ domains
EmptyKey == ""
AllKeys == {EmptyKey, "k1", "k2"}
\* the keys the sequential specification exercises
Keys == {EmptyKey, "k1"}
TTLs == 1..MaxTTL
Stamps == 0..(MaxTime + MaxTTL)

\* ----------------------------------------------------------------- envelope
\* base64 text of a payload, by table, for the payloads of the model
Base64Table == << <<<<>>, <<>>>>, <<<<"a">>, <<"YQ==">>>>, <<<<"b">>, <<"Yg==">>>> >>

Base64Encode(p) ==
  LET hit == {i \in 1..Len(Base64Table) : Base64Table[i][1] = p}
  IN  IF hit = {} THEN <<"?">> ELSE Base64Table[CHOOSE i \in hit : TRUE][2]

Base64Known(c) == \E i \in 1..Len(Base64Table) : Base64Table[i][2] = c

Base64Decode(c) == Base64Table[CHOOSE i \in 1..Len(Base64Table) : Base64Table[i][2] = c][1]

FormatTime(t) == ToString(t)

TimeKnown(s) == \E t \in Stamps : ToString(t) = s

ParseTime(s) == CHOOSE t \in Stamps : ToString(t) = s

\* {"value": <base64>, "expires_at": <timestamp>}
EncodeEnvelope(p, expiresAt) ==
  <<"{", "value:">> \o Base64Encode(p) \o <<"expires_at:", FormatTime(expiresAt), "}">>

IsEnvelope(b) ==
  /\ Len(b) \in {5, 6}
  /\ b[1] = "{"
  /\ b[2] = "value:"
  /\ b[Len(b) - 2] = "expires_at:"
  /\ TimeKnown(b[Len(b) - 1])
  /\ b[Len(b)] = "}"
  /\ Base64Known(SubSeq(b, 3, Len(b) - 3))

EnvelopeValue(b) == Base64Decode(SubSeq(b, 3, Len(b) - 3))

EnvelopeExpiresAt(b) == ParseTime(b[Len(b) - 1])

\* payloads a caller passes: empty, plain text, and one whose bytes have the
\* shape of an envelope
EnvelopeLike == EncodeEnvelope(<<"b">>, 1)
Payloads == {<<>>, <<"a">>, EnvelopeLike}
ExPayloads == {<<>>, <<"a">>, <<"b">>}
\* texts a caller passes to the string operations
Strings == {<<>>, <<"a">>}
\* values a caller passes to SetValue, with their shape: a string, a byte
\* slice, or anything else (a struct with one field, a channel)
Values == {<<"string", <<"a">>>>, <<"bytes", <<"a">>>>, <<"bytes", EnvelopeLike>>,
           <<"other", <<"struct", "1">>>>, <<"other", <<"chan">>>>}

\* -------------------------------------------------------------------- state
\* engine: the engine's entries; now: the clock; closed, panicked: the
\* instance's lifecycle; lastOp, lastWrite: what the last call returned and
\* the last successful write to each key; th: the calls in progress of the
\* concurrent callers
VARIABLES engine, now, closed, panicked, lastOp, lastWrite, th

vars == <<engine, now, closed, panicked, lastOp, lastWrite, th>>

\* concurrent callers: setters, each on a key of its own, and getters
Setters == {"s1", "s2"}
Getters == {"g1", "g2"}
Threads == Setters \cup Getters
SetterKey(t) == IF t = "s1" THEN "k1" ELSE "k2"
ConcKeys == {"k1", "k2"}
ConcPayloads == {<<"a">>, <<"b">>}

NoEntry == [present |-> FALSE, val |-> <<>>, ts |-> 0]

NoWrite == [kind |-> "none", val |-> <<>>, at |-> 0, ttl |-> 0]

\* the operation that has just returned, with what it returned
NoOp == [op |-> "none", key |-> EmptyKey, arg |-> <<>>, val |-> <<>>, err |-> Nil,
         ok |-> FALSE]

Idle == [pc |-> "idle", op |-> "none", key |-> EmptyKey, arg |-> <<>>,
         val |-> <<>>, err |-> Nil, seen |-> NoWrite, ttl |-> 0, at |-> 0]

\* ------------------------------------------------------------------- engine
engineGet(eng, key) ==
  IF eng[key].present
    THEN [val |-> eng[key].val, err |-> Nil]
    ELSE [val |-> <<>>, err |-> ErrEntryNotFound]

engineSet(eng, key, value, t, fail) ==
  IF fail
    THEN [eng |-> eng, err |-> ErrEngine]
    ELSE [eng |-> [eng EXCEPT ![key] = [present |-> TRUE, val |-> value, ts |-> t]],
          err |-> Nil]

engineDelete(eng, key) ==
  IF eng[key].present
    THEN [eng |-> [eng EXCEPT ![key] = NoEntry], err |-> Nil]
    ELSE [eng |-> eng, err |-> ErrEntryNotFound]

\* the engine's global life window: an entry older than it may be evicted
PastLifeWindow(eng, key, t) == eng[key].present /\ t - eng[key].ts > LifeWindow

\* ------------------------------------------------------------- conversions
\* string(data) and []byte(s): the same bytes under the other type
BytesToString(b) == [i \in 1..Len(b) |-> b[i]]

StringToBytes(s) == [i \in 1..Len(s) |-> s[i]]

\* json.Marshal: a struct becomes an object, a string is quoted, a channel
\* cannot be marshalled
JSONMarshalable(v) == v # <<"chan">>

JSONMarshal(v) == <<"{", "A:", v[2], "}">>

JSONQuote(s) == <<"\"">> \o s \o <<"\"">>

IsObjectJSON(data) == Len(data) = 4 /\ data[1] = "{" /\ data[2] = "A:" /\ data[4] = "}"

\* json.Unmarshal accepts a JSON document; of the byte strings of the model
\* the envelope-shaped ones and the marshalled structs are JSON
JSONValid(data) == IsEnvelope(data) \/ IsObjectJSON(data)

JSONValue(data) == <<"object">> \o SubSeq(data, 2, Len(data) - 1)

\* ------------------------------------------------------ operations (pure)
\* a Get that unwraps whatever decodes as an envelope
CacheGet_Unwrap(eng, key) ==
  LET r == engineGet(eng, key)
  IN  IF r.err # Nil THEN [val |-> <<>>, err |-> r.err]
      ELSE IF IsEnvelope(r.val) THEN [val |-> EnvelopeValue(r.val), err |-> Nil]
      ELSE [val |-> r.val, err |-> Nil]

\* func (c *Cache) Get(key string) ([]byte, error)
CacheGet(eng, key) ==
  LET r == engineGet(eng, key)
  IN  IF r.err # Nil THEN [val |-> <<>>, err |-> r.err]
                     ELSE [val |-> r.val, err |-> Nil]

\* func (c *Cache) GetString(key string) (string, error)
CacheGetString(eng, key) ==
  LET r == CacheGet(eng, key)
  IN  IF r.err # Nil THEN [val |-> <<>>, err |-> r.err]
                     ELSE [val |-> BytesToString(r.val), err |-> Nil]

\* func (c *Cache) GetValue(key string, value interface{}) error
\* dest is the destination's shape: "string" (*string) or "json" (anything else)
CacheGetValue(eng, key, dest) ==
  LET r == engineGet(eng, key)
  IN  IF r.err # Nil THEN [val |-> <<>>, err |-> r.err]
      ELSE IF dest = "string" THEN [val |-> BytesToString(r.val), err |-> Nil]
      ELSE IF JSONValid(r.val) THEN [val |-> JSONValue(r.val), err |-> Nil]
      ELSE [val |-> <<>>, err |-> ErrUnmarshal]

\* a Set that validates its key and value, which SetString would not share
CacheSet_Validating(eng, key, value, t, fail) ==
  IF key = EmptyKey THEN [eng |-> eng, err |-> ErrKeyEmpty]
  ELSE IF Len(value) = 0 THEN [eng |-> eng, err |-> ErrValueEmpty]
  ELSE engineSet(eng, key, value, t, fail)

\* func (c *Cache) Set(key string, value []byte) error
CacheSet(eng, key, value, t, fail) == engineSet(eng, key, value, t, fail)

\* func (c *Cache) SetString(key, value string) error
CacheSetString(eng, key, value, t, fail) ==
  engineSet(eng, key, StringToBytes(value), t, fail)

\* a SetValue that marshals every value, text and bytes included
CacheSetValue_AlwaysMarshal(eng, key, kind, value, t, fail) ==
  IF kind = "other" /\ ~JSONMarshalable(value)
    THEN [eng |-> eng, err |-> ErrMarshal, data |-> <<>>]
    ELSE LET data == IF kind = "other" THEN JSONMarshal(value) ELSE JSONQuote(value)
             r == engineSet(eng, key, data, t, fail)
         IN  [eng |-> r.eng, err |-> r.err, data |-> data]

\* func (c *Cache) SetValue(key string, value interface{}) error
\* data is the byte string handed to the engine
CacheSetValue(eng, key, kind, value, t, fail) ==
  IF kind = "other" /\ ~JSONMarshalable(value)
    THEN [eng |-> eng, err |-> ErrMarshal, data |-> <<>>]
    ELSE LET data == IF kind = "string" THEN StringToBytes(value)
                     ELSE IF kind = "bytes" THEN value
                     ELSE JSONMarshal(value)
             r == engineSet(eng, key, data, t, fail)
         IN  [eng |-> r.eng, err |-> r.err, data |-> data]

\* a Delete that resets the whole engine
CacheDelete_Reset(eng, key) ==
  [eng |-> [k \in DOMAIN eng |-> NoEntry], err |-> engineDelete(eng, key).err]

\* func (c *Cache) Delete(key string) error
CacheDelete(eng, key) == engineDelete(eng, key)

\* SetEX(key, value, ttl): validates, wraps the payload with now + ttl, and
\* writes the envelope through Set
CacheSetEX(eng, key, value, ttl, t, fail) ==
  IF key = EmptyKey THEN [eng |-> eng, err |-> ErrKeyEmpty]
  ELSE IF Len(value) = 0 THEN [eng |-> eng, err |-> ErrValueEmpty]
  ELSE CacheSet(eng, key, EncodeEnvelope(value, t + ttl), t, fail)

\* a Has that takes only this layer's not-found for absence
CacheHas_OnlyKeyNotFound(eng, key) ==
  IF key = EmptyKey THEN FALSE ELSE CacheGet(eng, key).err # ErrKeyNotFound

\* SetEXString(key, value, ttl): SetEX of the text's bytes
CacheSetEXString(eng, key, value, ttl, t, fail) ==
  CacheSetEX(eng, key, StringToBytes(value), ttl, t, fail)

\* Has(key): a Get-equivalent probe; every failure is false
CacheHas(eng, key) ==
  IF key = EmptyKey THEN FALSE ELSE CacheGet(eng, key).err = Nil

\* the engine's Close releases its resources; it cannot be released twice
engineClose(isClosed) == [closed |-> TRUE, panicked |-> isClosed]

CacheClose_NoGuard(isClosed) == engineClose(isClosed)

\* Close(): cancels the lifecycle context and releases the engine, once
CacheClose(isClosed) ==
  IF isClosed THEN [closed |-> TRUE, panicked |-> FALSE]
              ELSE engineClose(isClosed)

\* ------------------------------------------------------------------ actions
Init ==
  /\ engine = [k \in AllKeys |-> NoEntry]
  /\ now = 0
  /\ closed = FALSE
  /\ panicked = FALSE
  /\ lastOp = NoOp
  /\ lastWrite = [k \in AllKeys |-> NoWrite]
  /\ th = [t \in Threads |-> Idle]

Done(op, key, arg, val, err, ok) ==
  lastOp' = [op |-> op, key |-> key, arg |-> arg, val |-> val, err |-> err,
             ok |-> ok]

Wrote(kind, key, value, ttl, err) ==
  lastWrite' = IF err = Nil
                 THEN [lastWrite EXCEPT ![key] =
                         [kind |-> kind, val |-> value, at |-> now, ttl |-> ttl]]
                 ELSE lastWrite

Get(key) ==
  LET r == CacheGet(engine, key)
  IN  /\ ~panicked
      /\ Done("Get", key, <<>>, r.val, r.err, r.err = Nil)
      /\ UNCHANGED <<engine, now, closed, panicked, lastWrite, th>>

GetString(key) ==
  LET r == CacheGetString(engine, key)
  IN  /\ ~panicked
      /\ Done("GetString", key, <<>>, r.val, r.err, r.err = Nil)
      /\ UNCHANGED <<engine, now, closed, panicked, lastWrite, th>>

GetValue(key, dest) ==
  LET r == CacheGetValue(engine, key, dest)
  IN  /\ ~panicked
      /\ Done("GetValue", key, <<dest>>, r.val, r.err, r.err = Nil)
      /\ UNCHANGED <<engine, now, closed, panicked, lastWrite, th>>

Set(key, value, fail) ==
  LET r == CacheSet(engine, key, value, now, fail)
  IN  /\ ~panicked
      /\ engine' = r.eng
      /\ Done("Set", key, value, <<>>, r.err, r.err = Nil)
      /\ Wrote("Set", key, value, 0, r.err)
      /\ UNCHANGED <<now, closed, panicked, th>>

SetEX(key, value, ttl, fail) ==
  LET r == CacheSetEX(engine, key, value, ttl, now, fail)
  IN  /\ ~panicked
      /\ engine' = r.eng
      /\ Done("SetEX", key, value, <<>>, r.err, r.err = Nil)
      /\ Wrote("SetEX", key, value, ttl, r.err)
      /\ UNCHANGED <<now, closed, panicked, th>>

SetString(key, value, fail) ==
  LET r == CacheSetString(engine, key, value, now, fail)
  IN  /\ ~panicked
      /\ engine' = r.eng
      /\ Done("SetString", key, value, <<>>, r.err, r.err = Nil)
      /\ Wrote("Set", key, StringToBytes(value), 0, r.err)
      /\ UNCHANGED <<now, closed, panicked, th>>

SetValue(key, kind, value, fail) ==
  LET r == CacheSetValue(engine, key, kind, value, now, fail)
  IN  /\ ~panicked
      /\ engine' = r.eng
      /\ Done("SetValue", key, <<kind>> \o value, <<>>, r.err, r.err = Nil)
      /\ Wrote("Set", key, r.data, 0, r.err)
      /\ UNCHANGED <<now, closed, panicked, th>>

SetEXString(key, value, ttl, fail) ==
  LET r == CacheSetEXString(engine, key, value, ttl, now, fail)
  IN  /\ ~panicked
      /\ engine' = r.eng
      /\ Done("SetEXString", key, value, <<>>, r.err, r.err = Nil)
      /\ Wrote("SetEX", key, StringToBytes(value), ttl, r.err)
      /\ UNCHANGED <<now, closed, panicked, th>>

Delete(key) ==
  LET r == CacheDelete(engine, key)
  IN  /\ ~panicked
      /\ engine' = r.eng
      /\ Done("Delete", key, <<>>, <<>>, r.err, r.err = Nil)
      /\ Wrote("Delete", key, <<>>, 0, r.err)
      /\ UNCHANGED <<now, closed, panicked, th>>

Has(key) ==
  LET r == CacheHas(engine, key)
  IN  /\ ~panicked
      /\ Done("Has", key, <<>>, <<>>, Nil, r)
      /\ UNCHANGED <<engine, now, closed, panicked, lastWrite, th>>

Close ==
  LET r == CacheClose(closed)
  IN  /\ ~panicked
      /\ closed' = r.closed
      /\ panicked' = r.panicked
      /\ Done("Close", EmptyKey, IF closed THEN <<"repeated">> ELSE <<"first">>,
              <<>>, Nil, ~r.panicked)
      /\ UNCHANGED <<engine, now, lastWrite, th>>

\* the clock advances
Tick ==
  /\ now < MaxTime
  /\ now' = now + 1
  /\ lastOp' = NoOp
  /\ UNCHANGED <<engine, closed, panicked, lastWrite, th>>

\* the engine's background sweep removes an entry past the life window
EngineSweep(key) ==
  /\ ~closed
  /\ PastLifeWindow(engine, key, now)
  /\ engine' = [engine EXCEPT ![key] = NoEntry]
  /\ lastOp' = NoOp
  /\ UNCHANGED <<now, closed, panicked, lastWrite, th>>

Next ==
  \/ \E k \in Keys : Get(k)
  \/ \E k \in Keys : GetString(k)
  \/ \E k \in Keys, d \in {"string", "json"} : GetValue(k, d)
  \/ \E k \in Keys, p \in Payloads, f \in BOOLEAN : Set(k, p, f)
  \/ \E k \in Keys, p \in ExPayloads, t \in TTLs, f \in BOOLEAN : SetEX(k, p, t, f)
  \/ \E k \in Keys : Delete(k)
  \/ \E k \in Keys : Has(k)
  \/ Close
  \/ Tick
  \/ \E k \in Keys : EngineSweep(k)

Spec == Init /\ [][Next]_vars

\* ------------------------------------------------------------ typed facade
\* the string and value operations, with the byte operations they are
\* compared with
NextTyped ==
  \/ \E k \in Keys, s \in Strings, f \in BOOLEAN : SetString(k, s, f)
  \/ \E k \in Keys, v \in Values, f \in BOOLEAN : SetValue(k, v[1], v[2], f)
  \/ \E k \in Keys, s \in Strings, t \in TTLs : SetEXString(k, s, t, FALSE)
  \/ \E k \in Keys : Get(k)
  \/ \E k \in Keys : GetString(k)
  \/ \E k \in Keys, d \in {"string", "json"} : GetValue(k, d)
  \/ \E k \in Keys : Delete(k)
  \/ Tick
  \/ \E k \in Keys : EngineSweep(k)

SpecTyped == Init /\ [][NextTyped]_vars

\* ------------------------------------------------------- concurrent callers
\* A call of Get or Set is one call on the engine, which the engine runs
\* atomically under its own shard lock; the caller's thread may be
\* descheduled before it and after it.
CallSet(t, value) ==
  /\ t \in Setters
  /\ th[t].pc = "idle"
  /\ th' = [th EXCEPT ![t] = [Idle EXCEPT !.pc = "called", !.op = "Set",
                                          !.key = SetterKey(t), !.arg = value]]
  /\ UNCHANGED <<engine, now, closed, panicked, lastOp, lastWrite>>

CallGet(t, key) ==
  /\ t \in Getters
  /\ th[t].pc = "idle"
  /\ th' = [th EXCEPT ![t] = [Idle EXCEPT !.pc = "called", !.op = "Get", !.key = key]]
  /\ UNCHANGED <<engine, now, closed, panicked, lastOp, lastWrite>>

RunSet(t) ==
  /\ th[t].pc = "called" /\ th[t].op = "Set"
  /\ LET r == CacheSet(engine, th[t].key, th[t].arg, now, FALSE)
     IN  /\ engine' = r.eng
         /\ th' = [th EXCEPT ![t].pc = "returned", ![t].err = r.err]
         /\ Wrote("Set", th[t].key, th[t].arg, 0, r.err)
  /\ UNCHANGED <<now, closed, panicked, lastOp>>

RunGet(t) ==
  /\ th[t].pc = "called" /\ th[t].op = "Get"
  /\ LET r == CacheGet(engine, th[t].key)
     IN  th' = [th EXCEPT ![t].pc = "returned", ![t].val = r.val, ![t].err = r.err,
                          ![t].seen = lastWrite[th[t].key]]
  /\ UNCHANGED <<engine, now, closed, panicked, lastOp, lastWrite>>

Return(t) ==
  /\ th[t].pc = "returned"
  /\ th' = [th EXCEPT ![t] = Idle]
  /\ UNCHANGED <<engine, now, closed, panicked, lastOp, lastWrite>>

ThreadStep(t) == RunSet(t) \/ RunGet(t) \/ Return(t)

NextConc ==
  \/ \E t \in Setters, p \in ConcPayloads : CallSet(t, p)
  \/ \E t \in Getters, k \in ConcKeys : CallGet(t, k)
  \/ \E t \in Threads : RunSet(t)
  \/ \E t \in Threads : RunGet(t)
  \/ \E t \in Threads : Return(t)

SpecConc == Init /\ [][NextConc]_vars

\* ------------------------------------------------- calls on the engine, in time
\* A call of an operation spends time inside its one call on the engine:
\* the thread enters the engine call, where the engine applies it atomically,
\* leaves it, and returns to its caller. The Cache has no lock of its own, so
\* nothing orders a thread's entry with the other threads' calls.
LockThreads == {"s1", "g1"}
LockKey == "k1"

\* the one engine call of operation c.op, made at time t
EngineCall(eng, c, t) ==
  IF c.op = "Get"
    THEN LET r == CacheGet(eng, c.key) IN [eng |-> eng, val |-> r.val, err |-> r.err]
  ELSE IF c.op = "Set"
    THEN LET r == CacheSet(eng, c.key, c.arg, t, FALSE)
         IN  [eng |-> r.eng, val |-> <<>>, err |-> r.err]
  ELSE IF c.op = "SetEX"
    THEN LET r == CacheSetEX(eng, c.key, c.arg, c.ttl, t, FALSE)
         IN  [eng |-> r.eng, val |-> <<>>, err |-> r.err]
  ELSE LET r == CacheDelete(eng, c.key)
       IN  [eng |-> r.eng, val |-> <<>>, err |-> r.err]

LCall(t, op, key, arg, ttl) ==
  /\ th[t].pc = "idle"
  /\ th' = [th EXCEPT ![t] = [Idle EXCEPT !.pc = "called", !.op = op, !.key = key,
                                          !.arg = arg, !.ttl = ttl]]
  /\ UNCHANGED <<engine, now, closed, panicked, lastOp, lastWrite>>

LEnter(t) ==
  /\ th[t].pc = "called"
  /\ LET c == th[t]
         r == EngineCall(engine, c, now)
     IN  /\ engine' = r.eng
         /\ th' = [th EXCEPT ![t].pc = "engine", ![t].val = r.val, ![t].err = r.err,
                              ![t].seen = lastWrite[c.key], ![t].at = now]
         /\ IF c.op = "Get" THEN UNCHANGED lastWrite
                            ELSE Wrote(c.op, c.key, c.arg, c.ttl, r.err)
  /\ UNCHANGED <<now, closed, panicked, lastOp>>

\* the call holds what a Get read at time th[t].at: an expired envelope
ReadExpired(c) ==
  /\ c.op = "Get" /\ c.err = Nil
  /\ IsEnvelope(c.val)
  /\ c.at >= EnvelopeExpiresAt(c.val)

\* a Get that read an expired envelope waits for a lock that its own call
\* holds
LLeave_SelfLocked(t) ==
  /\ th[t].pc = "engine"
  /\ ~ReadExpired(th[t])
  /\ th' = [th EXCEPT ![t].pc = "returned"]
  /\ UNCHANGED <<engine, now, closed, panicked, lastOp, lastWrite>>

\* a Get that read an expired envelope deletes its key on the way out,
\* whatever the key holds by then
LLeave_LazyDelete(t) ==
  /\ th[t].pc = "engine"
  /\ th' = [th EXCEPT ![t].pc = "returned"]
  /\ engine' = IF ReadExpired(th[t]) THEN CacheDelete(engine, th[t].key).eng
                                      ELSE engine
  /\ UNCHANGED <<now, closed, panicked, lastOp, lastWrite>>

LLeave(t) ==
  /\ th[t].pc = "engine"
  /\ th' = [th EXCEPT ![t].pc = "returned"]
  /\ UNCHANGED <<engine, now, closed, panicked, lastOp, lastWrite>>

LReturn(t) ==
  /\ th[t].pc = "returned"
  /\ th' = [th EXCEPT ![t] = Idle]
  /\ UNCHANGED <<engine, now, closed, panicked, lastOp, lastWrite>>

NextLock ==
  \/ \E p \in ConcPayloads : LCall("s1", "Set", LockKey, p, 0)
  \/ \E ttl \in TTLs : LCall("s1", "SetEX", LockKey, <<"a">>, ttl)
  \/ LCall("s1", "Delete", LockKey, <<>>, 0)
  \/ LCall("g1", "Get", LockKey, <<>>, 0)
  \/ \E t \in LockThreads : LEnter(t)
  \/ \E t \in LockThreads : LLeave(t)
  \/ \E t \in LockThreads : LReturn(t)
  \/ Tick

\* the scheduler is fair: a thread that can take its next step takes it
SpecLock ==
  /\ Init
  /\ [][NextLock]_vars
  /\ \A t \in LockThreads :
       WF_vars(LEnter(t)) /\ WF_vars(LLeave(t)) /\ WF_vars(LReturn(t))

\* --------------------------------------------- every keyed operation, two keys
FrameKeys == {"k1", "k2"}

NextFrame ==
  \/ \E k \in FrameKeys : Set(k, <<"a">>, FALSE)
  \/ \E k \in FrameKeys : SetString(k, <<"a">>, FALSE)
  \/ \E k \in FrameKeys : SetValue(k, "other", <<"struct", "1">>, FALSE)
  \/ \E k \in FrameKeys, t \in TTLs : SetEX(k, <<"a">>, t, FALSE)
  \/ \E k \in FrameKeys : Delete(k)
  \/ \E k \in FrameKeys : Get(k)
  \/ \E k \in FrameKeys : GetString(k)
  \/ \E k \in FrameKeys : GetValue(k, "string")
  \/ \E k \in FrameKeys : Has(k)
  \/ Tick

SpecFrame == Init /\ [][NextFrame]_vars

\* ------------------------------------------------------------------- claims
NonEmptyKeys == Keys \ {EmptyKey}

\* the engine still holds what was last written to k: its life window has
\* not passed
WithinLifeWindow(k) == now - lastWrite[k].at <= LifeWindow

C2_GetOfSetEX ==
  \A k \in NonEmptyKeys :
    (lastOp.op = "Get" /\ lastOp.key = k /\ lastWrite[k].kind = "SetEX")
    => IF now < lastWrite[k].at + lastWrite[k].ttl
         THEN lastOp.err = Nil /\ lastOp.val = lastWrite[k].val
         ELSE lastOp.err = ErrKeyNotFound

C2_SetEXExpiry ==
  [][/\ C2_GetOfSetEX'
     /\ (/\ lastOp.op = "Get" /\ lastOp.err = ErrKeyNotFound
         /\ lastOp'.op = "Has" /\ lastOp'.key = lastOp.key)
        => ~lastOp'.ok]_vars

\* C3: Get(""), Set("", P) and SetEX("", P, ttl) fail with KeyEmpty in every
\* state and for every P, and leave the stored contents unchanged.
C3_EmptyKeyRejected ==
  [][(lastOp'.op \in {"Get", "Set", "SetEX"} /\ lastOp'.key = EmptyKey)
     => (lastOp'.err = ErrKeyEmpty /\ engine' = engine)]_vars

\* C4: Set(K, empty) and SetEX(K, empty, ttl) with non-empty K fail with
\* ValueEmpty and leave K as it was: absent stays absent, and a K holding P
\* still returns P from the next Get(K).
C4_EmptyValueRejected ==
  [][(/\ lastOp'.op \in {"Set", "SetEX"}
      /\ lastOp'.key \in NonEmptyKeys
      /\ lastOp'.arg = <<>>)
     => (/\ lastOp'.err = ErrValueEmpty
         /\ engine'[lastOp'.key] = engine[lastOp'.key]
         /\ CacheGet(engine', lastOp'.key) = CacheGet(engine, lastOp'.key))]_vars

\* C5: Has(K) for non-empty K is false while no Set/SetEX was applied to K,
\* true right after a successful Set or SetEX, false after a successful
\* Delete(K), and false once the SetEX ttl has elapsed.
C5_HasLifecycle ==
  \A k \in NonEmptyKeys :
    (lastOp.op = "Has" /\ lastOp.key = k)
    => /\ lastWrite[k].kind = "none" => ~lastOp.ok
       /\ (lastWrite[k].kind \in {"Set", "SetEX"} /\ lastWrite[k].at = now) => lastOp.ok
       /\ lastWrite[k].kind = "Delete" => ~lastOp.ok
       /\ (/\ lastWrite[k].kind = "SetEX"
           /\ now >= lastWrite[k].at + lastWrite[k].ttl) => ~lastOp.ok

\* C6: Get(K) for a non-empty K the engine does not hold fails with this
\* layer's KeyNotFound; the engine's entry-not-found value is never returned.
C6_NotFoundMapped ==
  \A k \in NonEmptyKeys :
    (lastOp.op = "Get" /\ lastOp.key = k /\ ~engine[k].present)
    => (lastOp.err = ErrKeyNotFound /\ lastOp.err # ErrEntryNotFound)

\* C7: with setters on pairwise disjoint keys and getters on those keys
\* running concurrently, every call in progress can always take its next step
\* (no deadlock), and every Get that returned holds either KeyNotFound or,
\* whole, the payload of the latest Set of its key.
C7_ConcurrentSetGet ==
  \A t \in Threads :
    /\ th[t].pc # "idle" => ENABLED ThreadStep(t)
    /\ (th[t].pc = "returned" /\ th[t].op = "Get")
       => \/ th[t].err = ErrKeyNotFound /\ th[t].val = <<>>
          \/ /\ th[t].err = Nil
             /\ th[t].seen.kind = "Set"
             /\ th[t].val = th[t].seen.val

\* C8: in every state and for every key K, Get(K) succeeds iff the engine
\* holds an entry for K that either does not decode as an envelope or whose
\* expires_at is strictly later than now.
C8_PresentIff ==
  \A k \in Keys :
    (CacheGet(engine, k).err = Nil)
    <=> (/\ engine[k].present
         /\ (~IsEnvelope(engine[k].val) \/ EnvelopeExpiresAt(engine[k].val) > now))

\* C9: GetString(K) and GetValue(K, dest) report not-found whenever Get(K)
\* reports KeyNotFound, in particular for a SetEX entry whose ttl has
\* elapsed, and when Get(K) succeeds they yield the payload Get(K) returns,
\* never the stored envelope bytes.
C9_TypedReadsHonourExpiry ==
  \A k \in NonEmptyKeys :
    LET g  == CacheGet(engine, k)
        gs == CacheGetString(engine, k)
        gv == CacheGetValue(engine, k, "string")
        setex == lastWrite[k].kind = "SetEX" /\ engine[k].present
    IN  /\ g.err = ErrKeyNotFound
           => (gs.err = ErrKeyNotFound /\ gv.err = ErrKeyNotFound)
        /\ (setex /\ now >= lastWrite[k].at + lastWrite[k].ttl)
           => (gs.err = ErrKeyNotFound /\ gv.err = ErrKeyNotFound)
        /\ g.err = Nil
           => (/\ gs.err = Nil /\ gs.val = BytesToString(g.val)
               /\ gv.err = Nil /\ gv.val = BytesToString(g.val))
        /\ (setex /\ now < lastWrite[k].at + lastWrite[k].ttl)
           => (/\ gs.val = BytesToString(lastWrite[k].val)
               /\ gv.val = BytesToString(lastWrite[k].val)
               /\ gs.val # BytesToString(engine[k].val)
               /\ gv.val # BytesToString(engine[k].val))

C12_TextAndBytesUnencoded ==
  [][(/\ lastOp'.op = "SetValue"
      /\ lastOp'.key \in NonEmptyKeys
      /\ lastOp'.err = Nil
      /\ Head(lastOp'.arg) \in {"string", "bytes"})
     => LET k == lastOp'.key
            v == Tail(lastOp'.arg)
        IN  /\ engine'[k].present
            /\ engine'[k].val = v
            /\ CacheGet(engine', k) = [val |-> v, err |-> Nil]
            /\ CacheGetValue(engine', k, "string") = [val |-> v, err |-> Nil]]_vars

\* a SetValue of a text has returned and the engine holds the text's bytes
C12_Witness ==
  /\ lastOp.op = "SetValue" /\ lastOp.key = "k1"
  /\ lastOp.arg = <<"string", "a">> /\ lastOp.err = Nil
  /\ engine["k1"].present /\ engine["k1"].val = <<"a">>

\* the engine holds for k an entry that decodes as an envelope whose
\* expires_at is not later than t
ExpiredEnvelope(eng, k, t) ==
  /\ eng[k].present
  /\ IsEnvelope(eng[k].val)
  /\ t >= EnvelopeExpiresAt(eng[k].val)

\* C13: eviction is lazy and happens only on reads of expired entries: a
\* Get(K) that finds an envelope with now >= expires_at deletes K from the
\* engine before it returns KeyNotFound, and a Get that returns a payload or
\* finds K absent leaves the engine unchanged.
C13_LazyEviction ==
  [][(lastOp'.op = "Get" /\ lastOp'.key \in NonEmptyKeys)
     => IF ExpiredEnvelope(engine, lastOp'.key, now)
          THEN lastOp'.err = ErrKeyNotFound /\ ~engine'[lastOp'.key].present
          ELSE engine' = engine]_vars

\* C16: a Get(K) that found an expired envelope and whose delete left the
\* entry in the engine has returned KeyNotFound, never another error and
\* never the expired payload; every later Get(K) returns the same while the
\* expired entry remains.
C16_ExpiredStaysNotFound ==
  \A k \in NonEmptyKeys :
    (lastOp.op = "Get" /\ lastOp.key = k /\ ExpiredEnvelope(engine, k, now))
    => (lastOp.err = ErrKeyNotFound /\ lastOp.val = <<>>)

KeyedOps == {"Set", "SetString", "SetValue", "SetEX", "Delete", "Get",
             "GetString", "GetValue", "Has"}

\* C20: every keyed operation touches only its own key: an operation on K,
\* whatever it returns, leaves the engine's entry of every other key K' as it
\* was, and with it what Get(K') and Has(K') observe.
C20_OwnKeyOnly ==
  [][lastOp'.op \in KeyedOps
     => \A k2 \in AllKeys \ {lastOp'.key} :
          /\ engine'[k2] = engine[k2]
          /\ CacheGet(engine', k2) = CacheGet(engine, k2)
          /\ CacheHas(engine', k2) = CacheHas(engine, k2)]_vars

\* a Delete of k1 has succeeded while k2 holds an entry
C20_Witness ==
  /\ lastOp.op = "Delete" /\ lastOp.key = "k1" /\ lastOp.err = Nil
  /\ ~engine["k1"].present
  /\ engine["k2"].present /\ CacheHas(engine, "k2")

\* C14: every engine access is made under the instance's reader/writer
\* lock: while a Set, SetEX or Delete executes its engine call, no other
\* operation of any thread executes an engine call; only reads overlap.
C14_WritersExclusive ==
  \A t \in LockThreads :
    (th[t].pc = "engine" /\ th[t].op \in {"Set", "SetEX", "Delete"})
    => \A u \in LockThreads \ {t} : th[u].pc # "engine"

\* C15: under fair scheduling every started operation eventually returns,
\* the Get that discovers an expired envelope included: it never waits for
\* a lock its own call holds.
C15_EveryCallReturns ==
  \A t \in LockThreads : (th[t].pc = "called") ~> (th[t].pc = "returned")

\* a Get that read an expired envelope has returned
C15_Witness ==
  th["g1"].pc = "returned" /\ ReadExpired(th["g1"])

\* the bytes the engine holds after the write w
StoredForm(w) ==
  IF w.kind = "SetEX" THEN EncodeEnvelope(w.val, w.at + w.ttl) ELSE w.val

\* a write of k succeeded after the call c read k
WrittenSince(c, k) ==
  lastWrite[k] # c.seen /\ lastWrite[k].kind \in {"Set", "SetEX"}

\* C18: the lazy delete never destroys newer data: when A's Get(K) read an
\* expired envelope and B's Set or SetEX of K completed after that read, then
\* once both have left the engine K still holds what B wrote.
C18_NewerDataSurvives ==
  \A a \in LockThreads :
    (/\ th[a].pc = "returned" /\ ReadExpired(th[a])
     /\ WrittenSince(th[a], th[a].key)
     /\ \A b \in LockThreads : th[b].pc # "engine")
    => (/\ engine[th[a].key].present
        /\ engine[th[a].key].val = StoredForm(lastWrite[th[a].key]))

\* A's Get read an expired envelope, B's Set completed after it, both returned
C18_Witness ==
  /\ th["g1"].pc = "returned" /\ ReadExpired(th["g1"])
  /\ WrittenSince(th["g1"], LockKey)
  /\ th["s1"].pc = "returned" /\ th["s1"].op = "Set" /\ th["s1"].err = Nil
  /\ engine[LockKey].val = th["s1"].arg

\* C19: only the most recent successful write governs expiry. A Set(K, Q)
\* that follows a SetEX of K makes Get(K) return Q at every later time, the
\* earlier ttl included; a SetEX(K, P2, t2) that follows a SetEX of K makes
\* Get(K) return P2 exactly until the second call's time + t2 and KeyNotFound
\* from then on. Get reads no clock: what it returns at a later time t, with
\* no operation on K in between, is what it returns on the engine as written.
C19_LatestWriteGoverns ==
  [][\A k \in NonEmptyKeys :
       (/\ lastWrite[k].kind = "SetEX"
        /\ lastOp'.key = k /\ lastOp'.err = Nil /\ lastOp'.arg # <<>>)
       => /\ lastOp'.op = "Set"
             => \A t \in Stamps :
                  t >= now => CacheGet(engine', k) = [val |-> lastOp'.arg, err |-> Nil]
          /\ lastOp'.op = "SetEX"
             => \A t \in Stamps :
                  t >= now
                  => CacheGet(engine', k)
                       = IF t < now + lastWrite'[k].ttl
                           THEN [val |-> lastOp'.arg, err |-> Nil]
                           ELSE [val |-> <<>>, err |-> ErrKeyNotFound]]_vars

====
